---- MODULE Spec2Model ----
(***************************************************************************)
(* A model of the G1 expression language: the Lexer (scan offset, one      *)
(* level of push-back, symbol table) and the recursive-descent evaluator   *)
(* of src/first-project.py, with the variant of src/first-project-pt3.py   *)
(* selected by impl = "pt3".                                               *)
(*                                                                         *)
(* The Python call stack is the variable stack: one frame per active       *)
(* parse_* call, holding the function, its position and its locals.  One   *)
(* action per parse_* function runs the top frame from its position to the *)
(* next call, return or raise.                                             *)
(*                                                                         *)
(* Offsets are Python's (0-based): data[i] of the source is data[i + 1]    *)
(* here.  Floats are modelled by exact rationals n/d; a value outside the  *)
(* exactly represented range, or an irrational one, is the value Opaque.   *)
(***************************************************************************)
EXTENDS Integers, Sequences, FiniteSets, TLC

\* ---------------------------------------------------------------- bounds
MaxLen == 3        \* longest source of the exhaustive family
MaxNum == 2        \* largest numeric literal of the structured families
MaxMagnitude == 30000  \* largest numerator/denominator held exactly

\* ------------------------------------------------------- token kinds
NoToken == 0
OPEN_PAR == 1
CLOSE_PAR == 2
OPERATOR == 3
NUM == 4
IDENTIFICATOR == 5

\* ------------------------------------------------------------ characters
Whitespace == {" ", "\t", "\n", "\r"}
OperatorChars == {"+", "/", "*", "^", "="}
Digits == {"0", "1", "2", "3", "4", "5", "6", "7", "8", "9"}
Letters ==
  {"a", "b", "c", "d", "e", "f", "g", "h", "i", "j", "k", "l", "m",
   "n", "o", "p", "q", "r", "s", "t", "u", "v", "w", "x", "y", "z",
   "A", "B", "C", "D", "E", "F", "G", "H", "I", "J", "K", "L", "M",
   "N", "O", "P", "Q", "R", "S", "T", "U", "V", "W", "X", "Y", "Z"}

DigitChar == <<"0", "1", "2", "3", "4", "5", "6", "7", "8", "9">>

DigitVal(c) == CHOOSE i \in 0..9 : DigitChar[i + 1] = c

\* ----------------------------------------------------------------- values
None == [k |-> "none", n |-> 0, d |-> 1, name |-> <<>>]
Opaque == [k |-> "opaque", n |-> 0, d |-> 1, name |-> <<>>]
Name(s) == [k |-> "name", n |-> 0, d |-> 1, name |-> s]

Abs(i) == IF i < 0 THEN 0 - i ELSE i

RECURSIVE GCD(_, _)
GCD(a, b) == IF b = 0 THEN a ELSE GCD(b, a % b)

\* the float n/d, in lowest terms with a positive denominator
Rat(n, d) ==
  LET g == GCD(Abs(n), Abs(d))
      nn == (IF d < 0 THEN 0 - n ELSE n) \div g
      dd == Abs(d) \div g
  IN IF Abs(nn) > MaxMagnitude \/ dd > MaxMagnitude
       THEN Opaque
       ELSE [k |-> "num", n |-> nn, d |-> dd, name |-> <<>>]

Num(i) == Rat(i, 1)

IsNum(x) == x.k = "num"
IsZero(x) == x.k = "num" /\ x.n = 0

\* arithmetic on floats (both operands are numbers or Opaque)
Add(x, y) ==
  IF x.k = "opaque" \/ y.k = "opaque" THEN Opaque
  ELSE Rat(x.n * y.d + y.n * x.d, x.d * y.d)

Mul(x, y) ==
  IF x.k = "opaque" \/ y.k = "opaque" THEN Opaque
  ELSE Rat(x.n * y.n, x.d * y.d)

Neg(x) == IF x.k = "opaque" THEN Opaque ELSE Rat(0 - x.n, x.d)

\* 1 / x for x # 0
Inv(x) == IF x.k = "opaque" THEN Opaque ELSE Rat(x.d, x.n)

RECURSIVE PowAcc(_, _, _)
PowAcc(acc, x, k) ==
  IF k = 0 \/ acc.k = "opaque" THEN acc ELSE PowAcc(Mul(acc, x), x, k - 1)

\* x ** k for a natural k
PowNat(x, k) ==
  IF x.k = "opaque" THEN Opaque
  ELSE IF x.d = 1 /\ x.n = 0 THEN (IF k = 0 THEN Num(1) ELSE Num(0))
  ELSE IF x.d = 1 /\ x.n = 1 THEN Num(1)
  ELSE IF x.d = 1 /\ x.n = -1 THEN (IF k % 2 = 0 THEN Num(1) ELSE Num(-1))
  ELSE PowAcc(Num(1), x, k)

\* the outcome of an evaluation: a value, or the exception it raises
Ok(v) == [exc |-> "", val |-> v]
Err(e) == [exc |-> e, val |-> None]

\* Python's x ** y on floats
Pow(x, y) ==
  IF x.k = "none" \/ y.k = "none" THEN Err("TypeError")
  ELSE IF x.k = "opaque" \/ y.k = "opaque" THEN Ok(Opaque)
  ELSE IF y.d = 1
    THEN IF y.n >= 0 THEN Ok(PowNat(x, y.n))
         ELSE IF x.n = 0 THEN Err("ZeroDivisionError")
         ELSE Ok(PowNat(Inv(x), 0 - y.n))
    ELSE IF x.n = 0
      THEN (IF y.n > 0 THEN Ok(Num(0)) ELSE Err("ZeroDivisionError"))
      ELSE IF x.n = x.d THEN Ok(Num(1)) ELSE Ok(Opaque)

\* Python's truth value of a number, as used by `x or default`
Truthy(x) == ~ IsZero(x) /\ x.k # "none"

OrElse(x, default) == IF Truthy(x) THEN x ELSE default

\* ------------------------------------------------- built-in functions
sin == <<"s", "i", "n">>
cos == <<"c", "o", "s">>
tan == <<"t", "a", "n">>
sqrt == <<"s", "q", "r", "t">>
log == <<"l", "o", "g">>
Builtins == {sin, cos, tan, sqrt, log}

\* exact square roots of the numbers held exactly
IsSquare(i) == \E r \in 0..174 : r * r = i
Root(i) == CHOOSE r \in 0..174 : r * r = i

\* math.sin, math.cos, math.tan, math.sqrt, math.log10: exact where the
\* result is rational, Opaque elsewhere
ApplyFunction(f, x) ==
  IF x.k = "none" THEN Err("TypeError")
  ELSE IF x.k = "opaque" THEN Ok(Opaque)
  ELSE IF f = sin \/ f = tan THEN (IF x.n = 0 THEN Ok(Num(0)) ELSE Ok(Opaque))
  ELSE IF f = cos THEN (IF x.n = 0 THEN Ok(Num(1)) ELSE Ok(Opaque))
  ELSE IF f = sqrt THEN
    IF x.n < 0 THEN Err("ValueError")
    ELSE IF IsSquare(x.n) /\ IsSquare(x.d) THEN Ok(Rat(Root(x.n), Root(x.d)))
    ELSE Ok(Opaque)
  ELSE \* log
    IF x.n <= 0 THEN Err("ValueError")
    ELSE IF x.d = 1 /\ x.n \in {1, 10, 100, 1000, 10000}
      THEN Ok(Num(CHOOSE e \in 0..4 : PowNat(Num(10), e) = x))
    ELSE IF x.n = 1 /\ x.d \in {10, 100, 1000, 10000}
      THEN Ok(Num(0 - (CHOOSE e \in 1..4 : PowNat(Num(10), e) = Num(x.d))))
    ELSE Ok(Opaque)

\* ------------------------------------------------- float(lexeme)
RECURSIVE IndexOf(_, _, _)
\* first position >= i of s holding c, or Len(s) + 1
IndexOf(s, c, i) ==
  IF i > Len(s) THEN Len(s) + 1
  ELSE IF s[i] = c THEN i ELSE IndexOf(s, c, i + 1)

RECURSIVE DigitsValue(_, _)
\* the digit string s read in base ten onto acc
DigitsValue(s, acc) ==
  IF acc.k = "opaque" \/ s = <<>> THEN acc
  ELSE DigitsValue(Tail(s), Add(Mul(acc, Num(10)), Num(DigitVal(Head(s)))))

RECURSIVE Scale(_, _, _)
\* x * f^k, stopping at an opaque or zero value
Scale(x, f, k) ==
  IF k = 0 \/ x.k = "opaque" \/ IsZero(x) THEN x ELSE Scale(Mul(x, f), f, k - 1)

\* the digits ip before and fp after the decimal point
Mantissa(ip, fp) ==
  Scale(DigitsValue(ip \o fp, Num(0)), Rat(1, 10), Len(fp))

\* the mantissa text split at offset dot
MantissaAt(mant, dot) ==
  Mantissa(SubSeq(mant, 1, dot - 1), SubSeq(mant, dot + 1, Len(mant)))

MantissaOf(mant) == MantissaAt(mant, IndexOf(mant, ".", 1))

\* m * 10^e
Exponent(m, e) ==
  IF e.k = "opaque" THEN (IF IsZero(m) THEN m ELSE Opaque)
  ELSE Scale(m, Num(10), e.n)

\* the unsigned literal split at the offset ePos of its e
UnsignedAt(body, ePos) ==
  Exponent(MantissaOf(SubSeq(body, 1, ePos - 1)),
           DigitsValue(SubSeq(body, ePos + 1, Len(body)), Num(0)))

Unsigned(body) == UnsignedAt(body, IndexOf(body, "e", 1))

float(lexeme) ==
  IF lexeme # <<>> /\ Head(lexeme) = "-" THEN Neg(Unsigned(Tail(lexeme)))
  ELSE IF lexeme # <<>> /\ Head(lexeme) = "+" THEN Unsigned(Tail(lexeme))
  ELSE Unsigned(lexeme)

\* ================================================================= Lexer
VARIABLES
  impl,       \* "g1": src/first-project.py, "pt3": src/first-project-pt3.py
  data,       \* Lexer.data, the source, a sequence of characters
  current,    \* Lexer.current, the scan offset
  previous,   \* Lexer.previous, the offset put_back returns to
  hashTable,  \* Lexer.hashTable, the symbol table
  stack,      \* the active parse_* calls, innermost last
  ret,        \* the value returned by the call that returned last
  status,     \* "running", "returned" or "raised"
  exc,        \* the exception raised, when status = "raised"
  lex,        \* history: the last Lexer operation and the token it gave
  calls,      \* history: every call made, with the scan offset at its entry
  shape,      \* the family the source was drawn from
  args        \* the numbers the source was built from

vars == <<impl, data, current, previous, hashTable, stack, ret, status, exc,
          lex, calls, shape, args>>

\* Python's data[i]
At(src, i) == src[i + 1]

RECURSIVE Run(_, _, _)
\* length of the longest run of characters of S in src from offset i
Run(src, i, S) ==
  IF i < Len(src) /\ At(src, i) \in S THEN 1 + Run(src, i + 1, S) ELSE 0

\* id_re = [a-zA-Z]+ : length of the match at offset i, 0 when none
id_re(src, i) == Run(src, i, Letters)

\* num_re = [+-]?(\d+(\.\d*)?|\.\d+)(e\d+)? : length of the match at
\* offset i, 0 when none
Has(src, j, c) == j < Len(src) /\ At(src, j) = c

\* (\.\d*)? after k digits at offset q
num_fraction(src, q, k) ==
  IF Has(src, q + k, ".") THEN k + 1 + Run(src, q + k + 1, Digits) ELSE k

\* \.\d+ at offset q, where f digits follow the point
num_point(src, q, f) == IF Has(src, q, ".") /\ f > 0 THEN 1 + f ELSE 0

\* (\d+(\.\d*)?|\.\d+) at offset q, where k digits stand
num_core(src, q, k) ==
  IF k > 0 THEN num_fraction(src, q, k)
  ELSE num_point(src, q, Run(src, q + 1, Digits))

\* (e\d+)? at offset r, where f digits follow the e
num_exponent(src, r, f) == IF Has(src, r, "e") /\ f > 0 THEN 1 + f ELSE 0

\* the sign of s characters and the core of length core, then the exponent
num_match(src, i, s, core) ==
  IF core = 0 THEN 0
  ELSE s + core + num_exponent(src, i + s + core,
                               Run(src, i + s + core + 1, Digits))

num_signed(src, i, s) ==
  num_match(src, i, s, num_core(src, i + s, Run(src, i + s, Digits)))

num_re(src, i) ==
  num_signed(src, i, IF At(src, i) \in {"+", "-"} THEN 1 ELSE 0)

\* what peek gives: the token (kind, value), the offset after it (current),
\* Lexer.current as peek leaves it (selfcur) and the exception it raises
Token(kind, value, cur, selfcur, e) ==
  [kind |-> kind, value |-> value, current |-> cur, selfcur |-> selfcur,
   exc |-> e]

\* the pt3 variant adds the identifier's length to Lexer.current itself
\* and returns the offset after its first letter
peek_identifier_pt3(src, cur, p, n) ==
  Token(IDENTIFICATOR, SubSeq(src, p + 1, p + n), p + 1, cur + n - 1, "")

peek_identifier(im, src, cur, p, n) ==
  IF im = "pt3" THEN peek_identifier_pt3(src, cur, p, n)
  ELSE Token(IDENTIFICATOR, SubSeq(src, p + 1, p + n), p + n, cur, "")

\* Lexer.peek
\* the offset is left on the character read
after_char_stuck(p) == p

\* current += 1 after the character at offset p is read
after_char(p) == p + 1

\* a number of m characters at offset p, or, when none matched (m = 0),
\* the operator - or a lexical error
peek_number(src, cur, p, char, m) ==
  IF m = 0 THEN
    IF char = "-" THEN Token(OPERATOR, <<char>>, after_char(p), cur, "")
    ELSE Token(NoToken, <<>>, cur, cur, "Exception")
  ELSE Token(NUM, SubSeq(src, p + 1, p + m), p + m, cur, "")

\* the token that starts with the character char at offset p, where an
\* identifier of mID letters matches
peek_char(im, src, cur, p, char, mID) ==
  IF char = "(" THEN Token(OPEN_PAR, <<char>>, after_char(p), cur, "")
  ELSE IF char = ")" THEN Token(CLOSE_PAR, <<char>>, after_char(p), cur, "")
  ELSE IF char \in OperatorChars
    THEN Token(OPERATOR, <<char>>, after_char(p), cur, "")
  ELSE IF mID > 0 THEN peek_identifier(im, src, cur, p, mID)
  ELSE peek_number(src, cur, p, char, num_re(src, p))

\* the token at offset p, the first offset past the whitespace; reading
\* data[p] past the end of the source is an IndexError
peek_at(im, src, cur, p) ==
  IF p >= Len(src) THEN Token(NoToken, <<>>, cur, cur, "IndexError")
  ELSE peek_char(im, src, cur, p, At(src, p), id_re(src, p))

\* Lexer.peek
peek(im, src, cur) ==
  IF cur < Len(src)
    THEN peek_at(im, src, cur, cur + Run(src, cur, Whitespace))
    ELSE Token(NoToken, <<>>, cur, cur, "")

\* the Lexer's offsets and the history of its last operation
LexState == [current |-> current, previous |-> previous, h |-> lex]

NoHistory ==
  [last |-> "none", kind |-> NoToken, value |-> <<>>, from |-> 0, to |-> 0,
   pbOK |-> TRUE]

\* Lexer.__next__ : tok.exc = "StopIteration" at the end of the source
\* __next__ once peek has given t
next_of(lx, t) ==
  IF t.exc # "" THEN [tok |-> t, lx |-> lx]
  ELSE IF t.kind = NoToken
    THEN [tok |-> [t EXCEPT !.exc = "StopIteration"], lx |-> lx]
  ELSE [tok |-> t,
        lx |-> [current |-> t.current, previous |-> t.selfcur,
                h |-> [last |-> "advance", kind |-> t.kind, value |-> t.value,
                       from |-> lx.current, to |-> t.current,
                       pbOK |-> lx.h.pbOK]]]

next(im, src, lx) == next_of(lx, peek(im, src, lx.current))

\* Lexer.put_back
put_back(lx) ==
  [current |-> lx.previous, previous |-> lx.previous,
   h |-> [lx.h EXCEPT !.last = "put_back",
                      !.pbOK = lx.h.pbOK /\ lx.h.last = "advance"]]

\* the offset lookahead_next_operator reads
lookahead_offset(cur) == cur + 1

\* Lexer.lookahead_next_operator (next_operator in pt3): the operator
\* character, <<>> for None, or the exception
lookahead_at(src, i) ==
  IF i >= Len(src) THEN [exc |-> "IndexError", op |-> <<>>]
  ELSE IF At(src, i) \in OperatorChars THEN [exc |-> "", op |-> <<At(src, i)>>]
  ELSE [exc |-> "", op |-> <<>>]

lookahead_next_operator(src, cur) == lookahead_at(src, lookahead_offset(cur))

\* the key of hashTable[None]
NoneKey == <<>>

FuncEntry(f) == [type |-> "func", func |-> f, value |-> None]
VarEntry(v) == [type |-> "var", func |-> <<>>, value |-> v]

\* Lexer.__init__'s hashTable
InitialTable(im) ==
  IF im = "pt3" THEN [key \in {} |-> VarEntry(None)]
  ELSE [key \in Builtins |-> FuncEntry(key)]

\* Lexer.add_id
add_id(ht, value, identificator) ==
  [key \in DOMAIN ht \cup {identificator} |->
     IF key = identificator THEN VarEntry(value) ELSE ht[key]]

\* ============================================================ evaluator
\* Python's binary operators on values that may be None
PyAdd(x, y) ==
  IF x.k \in {"none", "name"} \/ y.k \in {"none", "name"}
    THEN Err("TypeError") ELSE Ok(Add(x, y))

PyMul(x, y) ==
  IF x.k \in {"none", "name"} \/ y.k \in {"none", "name"}
    THEN Err("TypeError") ELSE Ok(Mul(x, y))

\* 1 / x
PyReciprocal(x) ==
  IF x.k \in {"none", "name"} THEN Err("TypeError")
  ELSE IF IsZero(x) THEN Err("ZeroDivisionError")
  ELSE Ok(Inv(x))

\* a frame of the call stack: the function, its position, its locals
Frame(fn) ==
  [fn |-> fn, pc |-> 0, operator |-> <<>>, ID |-> None, F |-> None,
   T |-> None, T_prime |-> None, function |-> <<>>]

\* what a step of the top frame does: call, return or raise
Outcome(act, lx, fr, callee, val, e) ==
  [act |-> act, lx |-> lx, frame |-> fr, callee |-> callee, val |-> val,
   exc |-> e, bind |-> FALSE, key |-> <<>>, bound |-> None]

Call(lx, fr, callee) ==
  Outcome("call", lx, [fr EXCEPT !.pc = fr.pc + 1], callee, None, "")
Return(lx, val) == Outcome("return", lx, Frame(""), "", val, "")
Raise(lx, e) == Outcome("raise", lx, Frame(""), "", None, e)

\* return the value of an evaluation, or raise its exception
ReturnOrRaise(lx, r) ==
  IF r.exc # "" THEN Raise(lx, r.exc) ELSE Return(lx, r.val)

\* parse_E: return T + (E_prime or 0)
parse_E_result(T, E_prime) == PyAdd(T, OrElse(E_prime, Num(0)))

parse_E_step(lx, fr, r) ==
  CASE fr.pc = 0 -> Call(lx, fr, "parse_T")
    [] fr.pc = 1 -> Call(lx, [fr EXCEPT !.T = r], "parse_E_prime")
    [] OTHER -> ReturnOrRaise(lx, parse_E_result(fr.T, r))

\* parse_E_prime: return (T if operator == "+" else -1 * T) + (E_prime or 0)
Then2(first, E_prime) ==
  IF first.exc # "" THEN first
  ELSE PyAdd(first.val, OrElse(E_prime, Num(0)))

parse_E_prime_result(operator, T, E_prime) ==
  Then2(IF operator = <<"+">> THEN Ok(T) ELSE PyMul(Num(-1), T), E_prime)

\* token not in [OPERATOR, OPEN_PAR, CLOSE_PAR, IDENTIFICATOR]
InvalidCharacter(kind) ==
  kind \notin {OPERATOR, OPEN_PAR, CLOSE_PAR, IDENTIFICATOR}

\* parse_E_prime once next(data) has given a
parse_E_prime_token(lx, fr, a) ==
         IF a.tok.exc = "StopIteration" THEN Return(lx, Num(0))
         ELSE IF a.tok.exc # "" THEN Raise(lx, a.tok.exc)
         ELSE IF a.tok.kind = OPERATOR /\ a.tok.value \in {<<"+">>, <<"-">>}
           THEN Call(a.lx, [fr EXCEPT !.operator = a.tok.value], "parse_T")
         ELSE IF InvalidCharacter(a.tok.kind) THEN Raise(a.lx, "ParserError")
         ELSE Return(put_back(a.lx), Num(0))

parse_E_prime_step(lx, fr, r, a) ==
  CASE fr.pc = 0 -> parse_E_prime_token(lx, fr, a)
    [] fr.pc = 1 -> Call(lx, [fr EXCEPT !.T = r], "parse_E_prime")
    [] OTHER ->
         ReturnOrRaise(lx, parse_E_prime_result(fr.operator, fr.T, r))

\* the caret applied to the product of the whole term
parse_T_result_product(F, T_prime, F_prime) ==
  IF F_prime.k = "none" \/ PyMul(F, OrElse(T_prime, Num(1))).exc # ""
    THEN PyMul(F, OrElse(T_prime, Num(1)))
  ELSE Pow(PyMul(F, OrElse(T_prime, Num(1))).val, F_prime)

\* parse_T: F ** F_prime when a caret followed, F * (T_prime or 1) otherwise
parse_T_result(F, T_prime, F_prime) ==
  IF F_prime.k # "none" THEN Pow(F, F_prime)
  ELSE PyMul(F, OrElse(T_prime, Num(1)))

parse_T_step(lx, fr, r) ==
  CASE fr.pc = 0 -> Call(lx, fr, "parse_F")
    [] fr.pc = 1 -> Call(lx, [fr EXCEPT !.F = r], "parse_T_prime")
    [] fr.pc = 2 -> Call(lx, [fr EXCEPT !.T_prime = r], "parse_F_prime")
    [] OTHER -> ReturnOrRaise(lx, parse_T_result(fr.F, fr.T_prime, r))

\* parse_F_prime once next(data) has given a
parse_F_prime_token(lx, fr, a) ==
         IF a.tok.exc = "StopIteration" THEN Return(lx, None)
         ELSE IF a.tok.exc # "" THEN Raise(lx, a.tok.exc)
         ELSE IF a.tok.kind = OPERATOR /\ a.tok.value = <<"^">>
           THEN Call(a.lx, fr, "parse_F")
         ELSE Return(put_back(a.lx), None)

parse_F_prime_step(lx, fr, r, a) ==
  CASE fr.pc = 0 -> parse_F_prime_token(lx, fr, a)
    [] fr.pc = 1 -> Call(lx, [fr EXCEPT !.F = r], "parse_F_prime")
    [] OTHER -> Return(lx, fr.F)

\* parse_T_prime: return (F if operator == "*" else 1 / F) * T_prime
Times(factor, T_prime) ==
  IF factor.exc # "" THEN factor ELSE PyMul(factor.val, T_prime)

parse_T_prime_result(operator, F, T_prime) ==
  Times(IF operator = <<"*">> THEN Ok(F) ELSE PyReciprocal(F), T_prime)

\* parse_T_prime once next(data) has given a
parse_T_prime_token(lx, fr, a) ==
         IF a.tok.exc = "StopIteration" THEN Return(lx, Num(1))
         ELSE IF a.tok.exc # "" THEN Raise(lx, a.tok.exc)
         ELSE IF a.tok.kind = OPERATOR /\ a.tok.value \in {<<"*">>, <<"/">>}
           THEN Call(a.lx, [fr EXCEPT !.operator = a.tok.value], "parse_F")
         ELSE IF InvalidCharacter(a.tok.kind) THEN Raise(a.lx, "ParserError")
         ELSE Return(put_back(a.lx), Num(1))

parse_T_prime_step(lx, fr, r, a) ==
  CASE fr.pc = 0 -> parse_T_prime_token(lx, fr, a)
    [] fr.pc = 1 -> Call(lx, [fr EXCEPT !.F = r], "parse_T_prime")
    [] OTHER ->
         ReturnOrRaise(lx, parse_T_prime_result(fr.operator, fr.F, r))

\* parse_F on an identifier: g1 reads hashTable[value] (KeyError when it
\* is missing) and applies a function to the next factor; pt3 returns
\* hashTable.get(value)
parse_F_identifier(im, ht, lx, fr, value) ==
  IF im = "pt3"
    THEN Return(lx, IF value \in DOMAIN ht THEN ht[value].value ELSE None)
  ELSE IF value \notin DOMAIN ht THEN Raise(lx, "KeyError")
  ELSE IF ht[value].type = "func"
    THEN Outcome("call", lx, [fr EXCEPT !.pc = 2, !.function = ht[value].func],
                 "parse_F", None, "")
  ELSE Return(lx, ht[value].value)

\* parse_F once next(data) has given a
parse_F_token(im, ht, lx, fr, a) ==
         IF a.tok.exc = "StopIteration" THEN Raise(lx, "Exception")
         ELSE IF a.tok.exc # "" THEN Raise(lx, a.tok.exc)
         ELSE IF a.tok.kind = OPEN_PAR THEN Call(a.lx, fr, "parse_E")
         ELSE IF a.tok.kind = NUM THEN Return(a.lx, float(a.tok.value))
         ELSE IF a.tok.kind = IDENTIFICATOR
           THEN parse_F_identifier(im, ht, a.lx, fr, a.tok.value)
         ELSE Raise(a.lx, "ParserError")

\* parse_F after ( E, once next(data) has given a
parse_F_close(lx, E, a) ==
         IF a.tok.exc = "StopIteration" THEN Raise(lx, "ParserError")
         ELSE IF a.tok.exc # "" THEN Raise(lx, a.tok.exc)
         ELSE IF a.tok.kind # CLOSE_PAR THEN Raise(a.lx, "ParserError")
         ELSE Return(a.lx, E)

parse_F_step(im, ht, lx, fr, r, a) ==
  CASE fr.pc = 0 -> parse_F_token(im, ht, lx, fr, a)
    [] fr.pc = 1 -> parse_F_close(lx, r, a)
    [] OTHER -> ReturnOrRaise(lx, ApplyFunction(fr.function, r))

\* parse_S: bind EQ to ID, then the final expression when EQ is None and
\* the next statement otherwise
parse_S_step(lx, fr, r) ==
  CASE fr.pc = 0 -> Call(lx, fr, "parse_ID")
    [] fr.pc = 1 -> Call(lx, [fr EXCEPT !.ID = r], "parse_EQ")
    [] fr.pc = 2 ->
         [Call(lx, fr, IF r.k = "none" THEN "parse_E" ELSE "parse_S")
            EXCEPT !.bind = TRUE,
                   !.key = IF fr.ID.k = "name" THEN fr.ID.name ELSE NoneKey,
                   !.bound = r]
    [] OTHER -> Return(lx, r)

\* parse_EQ once next(data) has given a
parse_EQ_token(lx, fr, a) ==
         IF a.tok.exc = "StopIteration" THEN Return(lx, None)
         ELSE IF a.tok.exc # "" THEN Raise(lx, a.tok.exc)
         ELSE IF a.tok.kind = OPERATOR /\ a.tok.value = <<"=">>
           THEN Call(a.lx, fr, "parse_E")
         ELSE Return(put_back(a.lx), None)

parse_EQ_step(lx, fr, r, a) ==
  CASE fr.pc = 0 -> parse_EQ_token(lx, fr, a)
    [] OTHER -> Return(lx, r)

\* parse_ID on the identifier a, once lookahead_next_operator has given la
parse_ID_lookahead(a, la) ==
  IF la.exc # "" THEN Raise(a.lx, la.exc)
  ELSE IF la.op = <<"=">> THEN Return(a.lx, Name(a.tok.value))
  ELSE Return(put_back(a.lx), None)

\* parse_ID once next(data) has given a
parse_ID_token(src, lx, a) ==
  IF a.tok.exc = "StopIteration" THEN Return(lx, None)
  ELSE IF a.tok.exc # "" THEN Raise(lx, a.tok.exc)
  ELSE IF a.tok.kind = IDENTIFICATOR
    THEN parse_ID_lookahead(a, lookahead_next_operator(src, a.lx.current))
  ELSE Return(put_back(a.lx), None)

parse_ID_step(src, lx, a) == parse_ID_token(src, lx, a)

\* ------------------------------------------------------------- actions
\* In an action, t is what peek gives at the scan offset, a what __next__
\* makes of it (next_of) and o the outcome of the step, each computed once.
Running == status = "running" /\ stack # <<>>
Top == stack[Len(stack)]

\* the effect of an outcome on the Lexer, the symbol table and the stack
Apply(o) ==
  /\ current' = o.lx.current
  /\ previous' = o.lx.previous
  /\ lex' = o.lx.h
  /\ hashTable' = IF o.bind THEN add_id(hashTable, o.bound, o.key)
                  ELSE hashTable
  /\ CASE o.act = "call" ->
            /\ stack' = Append([stack EXCEPT ![Len(stack)] = o.frame],
                               Frame(o.callee))
            /\ calls' = Append(calls, <<o.callee, o.lx.current>>)
            /\ UNCHANGED <<ret, status, exc>>
       [] o.act = "return" ->
            /\ stack' = SubSeq(stack, 1, Len(stack) - 1)
            /\ ret' = o.val
            /\ status' = IF Len(stack) = 1 THEN "returned" ELSE "running"
            /\ UNCHANGED <<exc, calls>>
       [] OTHER ->
            /\ stack' = <<>>
            /\ status' = "raised"
            /\ exc' = o.exc
            /\ UNCHANGED <<ret, calls>>
  /\ UNCHANGED <<impl, data, shape, args>>

parse_S ==
  /\ Running /\ Top.fn = "parse_S"
  /\ \E o \in {parse_S_step(LexState, Top, ret)} : Apply(o)

parse_ID ==
  /\ Running /\ Top.fn = "parse_ID"
  /\ \E t \in {peek(impl, data, current)} :
       \E a \in {next_of(LexState, t)} :
         \E o \in {parse_ID_step(data, LexState, a)} : Apply(o)

parse_EQ ==
  /\ Running /\ Top.fn = "parse_EQ"
  /\ \E t \in {peek(impl, data, current)} :
       \E a \in {next_of(LexState, t)} :
         \E o \in {parse_EQ_step(LexState, Top, ret, a)} : Apply(o)

parse_E ==
  /\ Running /\ Top.fn = "parse_E"
  /\ \E o \in {parse_E_step(LexState, Top, ret)} : Apply(o)

parse_E_prime ==
  /\ Running /\ Top.fn = "parse_E_prime"
  /\ \E t \in {peek(impl, data, current)} :
       \E a \in {next_of(LexState, t)} :
         \E o \in {parse_E_prime_step(LexState, Top, ret, a)} : Apply(o)

parse_T ==
  /\ Running /\ Top.fn = "parse_T"
  /\ \E o \in {parse_T_step(LexState, Top, ret)} : Apply(o)

parse_T_prime ==
  /\ Running /\ Top.fn = "parse_T_prime"
  /\ \E t \in {peek(impl, data, current)} :
       \E a \in {next_of(LexState, t)} :
         \E o \in {parse_T_prime_step(LexState, Top, ret, a)} : Apply(o)

parse_F_prime ==
  /\ Running /\ Top.fn = "parse_F_prime"
  /\ \E t \in {peek(impl, data, current)} :
       \E a \in {next_of(LexState, t)} :
         \E o \in {parse_F_prime_step(LexState, Top, ret, a)} : Apply(o)

parse_F ==
  /\ Running /\ Top.fn = "parse_F"
  /\ \E t \in {peek(impl, data, current)} :
       \E a \in {next_of(LexState, t)} :
         \E o \in {parse_F_step(impl, hashTable, LexState, Top, ret, a)} :
           Apply(o)

Next ==
  \/ parse_S
  \/ parse_ID
  \/ parse_EQ
  \/ parse_E
  \/ parse_E_prime
  \/ parse_T
  \/ parse_T_prime
  \/ parse_F_prime
  \/ parse_F

\* parse(source_code): a fresh Lexer and the call of parse_S
parse(im, src, sh, ar) ==
  /\ impl = im
  /\ data = src
  /\ current = 0
  /\ previous = -1
  /\ hashTable = InitialTable(im)
  /\ stack = <<Frame("parse_S")>>
  /\ ret = None
  /\ status = "running"
  /\ exc = ""
  /\ lex = NoHistory
  /\ calls = <<<<"parse_S", 0>>>>
  /\ shape = sh
  /\ args = ar

\* ====================================================== source families
OpChar == <<"+", "-", "*", "/">>

RECURSIVE Decimal(_)
\* the decimal digits of a natural number
Decimal(n) ==
  IF n < 10 THEN <<DigitChar[n + 1]>>
  ELSE Decimal(n \div 10) \o <<DigitChar[(n % 10) + 1]>>

\* a numeric literal
Lit(n) == IF n < 0 THEN <<"-">> \o Decimal(0 - n) ELSE Decimal(n)

RECURSIVE Spaces(_)
Spaces(k) == IF k = 0 THEN <<>> ELSE <<" ">> \o Spaces(k - 1)

Bin(x, o, y) == x \o <<" ", OpChar[o], " ">> \o y
Paren(x) == <<"(">> \o x \o <<")">>
Assign(name, x) == name \o <<" ", "=", " ">> \o x
Then(x, y) == x \o <<" ">> \o y

Nums == 0..MaxNum
Ops == 1..4

\* one, two or three operands, with and without parentheses
ArithSource(f, a, o1, b, o2, c) ==
  CASE f = 1 -> Bin(Lit(a), o1, Lit(b))
    [] f = 2 -> Bin(Bin(Lit(a), o1, Lit(b)), o2, Lit(c))
    [] f = 3 -> Bin(Paren(Bin(Lit(a), o1, Lit(b))), o2, Lit(c))
    [] OTHER -> Bin(Lit(a), o1, Paren(Bin(Lit(b), o2, Lit(c))))

InitArith ==
  \E f \in 1..4, a \in Nums, o1 \in Ops, b \in Nums, o2 \in Ops, c \in Nums :
    /\ f = 1 => (o2 = 1 /\ c = 0)
    /\ parse("g1", ArithSource(f, a, o1, b, o2, c), "arith",
             <<f, a, o1, b, o2, c>>)

\* F1 (op Fi)* ^ G with zero, one or two factors in the tail, and a + b ^ G
CaretSource(f, a, o1, b, o2, c, g) ==
  CASE f = 0 -> Lit(a) \o <<" ", "^", " ">> \o Lit(g)
    [] f = 1 -> Bin(Lit(a), o1, Lit(b)) \o <<" ", "^", " ">> \o Lit(g)
    [] f = 2 -> Bin(Bin(Lit(a), o1, Lit(b)), o2, Lit(c))
                  \o <<" ", "^", " ">> \o Lit(g)
    [] OTHER -> Bin(Lit(a), 1, Lit(b)) \o <<" ", "^", " ">> \o Lit(g)

InitCaret ==
  \E im \in {"g1", "pt3"}, f \in 0..3, a \in Nums, o1 \in {3, 4}, b \in Nums,
     o2 \in {3, 4}, c \in Nums, g \in -1..MaxNum :
    /\ f \in {0, 3} => (o1 = 3 /\ o2 = 3 /\ c = 0)
    /\ f = 0 => b = 0
    /\ f = 1 => (o2 = 3 /\ c = 0)
    /\ parse(im, CaretSource(f, a, o1, b, o2, c, g), "caret",
             <<f, a, o1, b, o2, c, g>>)

VarA == <<"a">>
VarB == <<"b", "b">>

\* the final bare expression over the operand v: started by a numeric
\* literal, an identifier, a function name or a parenthesis, or a single
\* identifier
FinalSource(fin, v, m) ==
  CASE fin = 1 -> Bin(Lit(m), 1, v)
    [] fin = 2 -> Bin(v, 1, Lit(m))
    [] fin = 3 -> sqrt \o Paren(Bin(v, 1, Lit(m)))
    [] fin = 4 -> Paren(Bin(v, 1, Lit(m)))
    [] OTHER -> v

\* k assignments (a = n, then bb = a + m) and the final expression
ProgramSource(k, fin, n, m) ==
  CASE k = 0 -> FinalSource(fin, Lit(n), m)
    [] k = 1 -> Then(Assign(VarA, Lit(n)), FinalSource(fin, VarA, m))
    [] OTHER -> Then(Then(Assign(VarA, Lit(n)),
                          Assign(VarB, Bin(VarA, 1, Lit(m)))),
                     FinalSource(fin, VarB, m))

InitProgram ==
  \E k \in 0..2, fin \in 1..5, n \in Nums, m \in Nums :
    /\ fin = 5 => m = 0
    /\ parse("g1", ProgramSource(k, fin, n, m), "program", <<k, fin, n, m>>)

Unbound == <<VarA, <<"x", "y">>, <<"u", "n", "b", "o", "u", "n", "d">>>>

\* a source that uses the never assigned identifier u as a value
UnboundSource(f, u, n) ==
  CASE f = 1 -> u
    [] f = 2 -> Bin(u, 1, Lit(n))
    [] f = 3 -> Bin(Lit(n), 1, u)
    [] f = 4 -> Paren(u)
    [] f = 5 -> Bin(Lit(n), 3, u)
    [] f = 6 -> sqrt \o <<" ">> \o u
    [] OTHER -> Then(Assign(VarB, Lit(n)), Bin(VarB, 1, u))

InitUnbound ==
  \E f \in 1..7, i \in 1..3, n \in Nums :
    /\ f \in {1, 4, 6} => n = 0
    /\ parse("g1", UnboundSource(f, Unbound[i], n), "unbound", <<f, i, n>>)

\* sources with one parenthesis too many
ParenSource(f, a, b) ==
  CASE f = 1 -> <<"(">> \o Bin(Lit(a), 1, Lit(b))
    [] f = 2 -> Bin(Lit(a), 1, Lit(b)) \o <<")">>
    [] f = 3 -> <<"(">> \o Paren(Lit(a))
    [] f = 4 -> Paren(Lit(a)) \o <<")">>
    [] f = 5 -> <<"(">> \o Lit(a)
    [] OTHER -> Lit(a) \o <<")">>

InitParen ==
  \E f \in 1..6, a \in Nums, b \in Nums :
    /\ f > 2 => b = 0
    /\ parse("g1", ParenSource(f, a, b), "paren", <<f, a, b>>)

\* a, s1 spaces, =, s2 spaces, n, then the expression (a)
SpacedAssignSource(s1, s2, n) ==
  Then(VarA \o Spaces(s1) \o <<"=">> \o Spaces(s2) \o Lit(n), Paren(VarA))

InitSpacedAssign ==
  \E s1 \in 0..2, s2 \in 0..2, n \in Nums :
    parse("g1", SpacedAssignSource(s1, s2, n), "assign", <<s1, s2, n>>)

\* a, s1 spaces, -, s2 spaces, b
MinusSource(s1, s2, a, b) ==
  Lit(a) \o Spaces(s1) \o <<"-">> \o Spaces(s2) \o Lit(b)

InitMinus ==
  \E s1 \in 0..1, s2 \in 0..1, a \in Nums, b \in Nums :
    parse("g1", MinusSource(s1, s2, a, b), "minus", <<s1, s2, a, b>>)

WsChar == <<" ", "\t", "\n", "\r">>

\* n + m followed by t whitespace characters of the kind w
TrailingSource(n, m, w, t) ==
  Bin(Lit(n), 1, Lit(m)) \o [i \in 1..t |-> WsChar[w]]

InitTrailing ==
  \E n \in Nums, m \in Nums, w \in 1..4, t \in 0..2 :
    /\ t = 0 => w = 1
    /\ parse("g1", TrailingSource(n, m, w, t), "trailing", <<n, m, w, t>>)

\* every source of at most MaxLen characters over Alphabet
Alphabet == {" ", "2", "a", "(", ")", "+", "-", "*", "^", "="}

Sources == UNION {[1..len -> Alphabet] : len \in 0..MaxLen}

InitStrings ==
  \E im \in {"g1", "pt3"}, src \in Sources : parse(im, src, "any", <<>>)

Init ==
  \/ InitArith
  \/ InitCaret
  \/ InitProgram
  \/ InitUnbound
  \/ InitParen
  \/ InitSpacedAssign
  \/ InitMinus
  \/ InitTrailing
  \/ InitStrings

Spec == Init /\ [][Next]_vars

\* A call runs to its next call, return or raise without waiting: weak
\* fairness of Next, []<>~ENABLED <<Next>>_vars \/ []<><<Next>>_vars, where
\* ENABLED <<Next>>_vars is Running (every step of a running call is
\* defined and records itself in the stack or the status).
Fairness == []<>(~Running) \/ []<><<Next>>_vars

SpecLive == Spec /\ Fairness

Done == status # "running"
Returned(v) == status = "returned" /\ ret = v
Raised(e) == status = "raised" /\ exc = e

OutcomeIs(r) == IF r.exc = "" THEN Returned(r.val) ELSE Raised(r.exc)

\* ------------------------------------------- standard arithmetic
\* x o y on two outcomes, o indexing OpChar
StdOp(o, x, y) ==
  IF x.exc # "" THEN x
  ELSE IF y.exc # "" THEN y
  ELSE CASE o = 1 -> Ok(Add(x.val, y.val))
         [] o = 2 -> Ok(Add(x.val, Neg(y.val)))
         [] o = 3 -> Ok(Mul(x.val, y.val))
         [] OTHER -> IF IsZero(y.val) THEN Err("ZeroDivisionError")
                     ELSE Ok(Mul(x.val, Inv(y.val)))

Const(n) == Ok(Num(n))

\* the value of ArithSource(f, a, o1, b, o2, c): * and / bind tighter than
\* + and -, each level associates to the left
StdArith(f, a, o1, b, o2, c) ==
  CASE f = 1 -> StdOp(o1, Const(a), Const(b))
    [] f = 2 -> IF o1 \in {1, 2} /\ o2 \in {3, 4}
                  THEN StdOp(o1, Const(a), StdOp(o2, Const(b), Const(c)))
                  ELSE StdOp(o2, StdOp(o1, Const(a), Const(b)), Const(c))
    [] f = 3 -> StdOp(o2, StdOp(o1, Const(a), Const(b)), Const(c))
    [] OTHER -> StdOp(o1, Const(a), StdOp(o2, Const(b), Const(c)))

ArithExpected == StdArith(args[1], args[2], args[3], args[4], args[5], args[6])

\* C1: a well-formed source of non-negative literals, parentheses and
\* + - * / that divides by no zero evaluates to its value under standard
\* arithmetic, also when a factor or the product of a TermTail is zero.
C1_StandardArithmetic ==
  (shape = "arith" /\ Done /\ ArithExpected.exc = "")
    => Returned(ArithExpected.val)

\* ---------------------------------------------------------- programs
\* the value of the operand of the final expression of ProgramSource
ProgramOperand(k, n, m) == IF k = 2 THEN Num(n + m) ELSE Num(n)

FinalExpected(fin, v, m) ==
  CASE fin \in {1, 2, 4} -> Ok(Add(v, Num(m)))
    [] fin = 3 -> ApplyFunction(sqrt, Add(v, Num(m)))
    [] OTHER -> Ok(v)

ProgramExpected ==
  FinalExpected(args[2], ProgramOperand(args[1], args[3], args[4]), args[4])

Bound(name, v) ==
  name \in DOMAIN hashTable /\ hashTable[name] = VarEntry(v)

\* C2: k >= 0 assignments followed by one bare expression bind in source
\* order and return the value of the final expression, whatever token it
\* starts with and also when it is a single identifier ending the source.
C2_ProgramValue ==
  (shape = "program" /\ Done)
    => /\ Returned(ProgramExpected.val)
       /\ args[1] >= 1 => Bound(VarA, Num(args[3]))
       /\ args[1] = 2 => Bound(VarB, Num(args[3] + args[4]))

\* ------------------------------------------------------------- caret
CaretNonZeroDivisors ==
  /\ (args[1] \in {1, 2} /\ args[3] = 4) => args[4] # 0
  /\ (args[1] = 2 /\ args[5] = 4) => args[6] # 0

\* F1 ** G, and a + b ** G for the source a + b ^ G
CaretExpected ==
  IF args[1] = 3
    THEN StdOp(1, Const(args[2]), Pow(Num(args[4]), Num(args[7])))
    ELSE Pow(Num(args[2]), Num(args[7]))

\* C3: a Term  F1 (('*'|'/') Fi)* '^' G  with non-zero divisors evaluates
\* to F1 ** G, the product or quotient of the tail being discarded, while
\* a + b ^ c evaluates to a + b ** c; in both implementations.
C3_ExponentOverride ==
  (shape = "caret" /\ Done /\ CaretNonZeroDivisors) => OutcomeIs(CaretExpected)

\* 2 * 2 ^ 2 has returned 4, not 2 * (2 ** 2) = 8
C3_Witness ==
  /\ shape = "caret" /\ impl = "g1"
  /\ args = <<1, 2, 3, 2, 3, 0, 2>>
  /\ Returned(Num(4))

\* ----------------------------------------------------------- unbound
\* C4: a source that uses a never assigned identifier as a value aborts
\* with the unbound-identifier error of the symbol table's lookup, also
\* when the identifier is the whole source or its last token.
C4_UnboundIdentifier == (shape = "unbound" /\ Done) => Raised("KeyError")

\* ------------------------------------------------------- parentheses
\* C5: a source with an unmatched parenthesis, open or close, aborts with
\* a parser error.
C5_UnmatchedParenthesis == (shape = "paren" /\ Done) => Raised("ParserError")

\* -------------------------------------------------------- assignment
\* C6: an identifier followed by =, with any amount of whitespace between
\* them, is an assignment: a=2, a = 2 and a  = 2 all bind a.
C6_AssignmentSpacing ==
  (shape = "assign" /\ Done)
    => (Returned(Num(args[3])) /\ Bound(VarA, Num(args[3])))

\* ------------------------------------------------------------- minus
\* C7: a - b, a -b and a-b all evaluate to a minus b.
C7_MinusSpacing ==
  (shape = "minus" /\ Done) => Returned(Num(args[3] - args[4]))

\* -------------------------------------------------------- whitespace
OnlyWhitespaceFrom(src, cur) == cur + Run(src, cur, Whitespace) >= Len(src)

EndMarker(cur) == Token(NoToken, <<>>, cur, cur, "")

\* C8: at every offset reached, peek yields the End marker when no
\* non-whitespace character remains, and a source followed by whitespace
\* evaluates to what it evaluates to without it.
C8_TrailingWhitespace ==
  /\ (impl = "g1" /\ OnlyWhitespaceFrom(data, current))
       => peek(impl, data, current) = EndMarker(current)
  /\ (shape = "trailing" /\ Done) => Returned(Num(args[1] + args[2]))

\* --------------------------------------------------------- push-back
\* the next advance gives the token of the last one and ends where it did
SameTokenAgain(t) ==
  /\ t.exc = ""
  /\ t.kind = lex.kind
  /\ t.value = lex.value
  /\ t.current = lex.to

\* C9: in both Lexers every put_back follows a successful advance with no
\* put_back in between and restores the offset at which that advance
\* started, so that the next advance gives the same token and offset.
C9_PushBackRestores ==
  /\ lex.pbOK
  /\ lex.last = "put_back"
       => (current = lex.from /\ SameTokenAgain(peek(impl, data, current)))

\* ------------------------------------------------------- termination
Recursive ==
  {"parse_S", "parse_E_prime", "parse_T_prime", "parse_F_prime", "parse_F"}

\* the scan offsets at the successive entries of each recursive function
\* strictly increase and never pass the end of the source
EntriesIncrease ==
  /\ \A i \in 1..Len(calls) : calls[i][2] <= Len(data)
  /\ \A i \in 1..Len(calls) : \A j \in (i + 1)..Len(calls) :
       (calls[i][1] = calls[j][1] /\ calls[i][1] \in Recursive)
         => calls[i][2] < calls[j][2]

\* C10: parse() of src/first-project.py ends, with a value or an error,
\* and the offsets at the entries of parse_S, parse_E_prime, parse_T_prime,
\* parse_F_prime and parse_F strictly increase, bounded by the source length.
C10_Terminates == [](impl = "g1" => EntriesIncrease) /\ <>Done

Entries(fn) == Cardinality({i \in 1..Len(calls) : calls[i][1] = fn})

\* parse_T_prime and then parse_E_prime were entered at one offset within
\* the source: the token parse_T_prime took there was pushed back
PushedBack ==
  \E i \in 1..Len(calls) : \E j \in (i + 1)..Len(calls) :
    /\ calls[i][1] = "parse_T_prime" /\ calls[j][1] = "parse_E_prime"
    /\ calls[i][2] = calls[j][2] /\ calls[i][2] < Len(data)

\* a = n bb = a + m ... has returned: parse_S entered three times, tokens
\* pushed back on the way
C10_Witness ==
  /\ impl = "g1" /\ status = "returned"
  /\ Entries("parse_S") = 3
  /\ Entries("parse_E_prime") >= 4
  /\ PushedBack

====
